---------------------------- MODULE Spec2Model ----------------------------
(***************************************************************************)
(* Model of the Replicate image tool server                                *)
(* (src/mcp/replicate-image/replicate_image/server.py): the URL extractor  *)
(* (three regular expressions, concatenation, de-duplication), the image   *)
(* source resolution inside edit_image, and the provider call made by      *)
(* generate_image and edit_image.                                          *)
(*                                                                         *)
(* A Python str is a sequence of one-character strings, so that the        *)
(* regular expressions are matched character by character.  Python's None  *)
(* is the value None below, which is no sequence of characters.            *)
(***************************************************************************)
EXTENDS Integers, Sequences, FiniteSets, TLC

(***************************************************************************)
(* Bounds of the model.                                                    *)
(***************************************************************************)
\* words in a text handed to extract_image_urls
MaxWords == 3
\* words in the conversation_context argument of edit_image
MaxCtxWords == 2
\* comma-separated entries in the CONVERSATION_IMAGES value
MaxEnvEntries == 2
\* tool invocations in flight together
NumCalls == 2

(***************************************************************************)
(* Characters and strings.                                                 *)
(***************************************************************************)
None == <<"<None>">>

\* Python truthiness of an Optional[str] / list: None and the empty value
\* are false.
Truthy(x) == x # None /\ x # <<>>

Max(S) == CHOOSE x \in S : \A y \in S : y <= x
Min(S) == CHOOSE x \in S : \A y \in S : x <= y

RECURSIVE Join(_, _)
Join(ss, sep) ==
    IF ss = <<>> THEN <<>>
    ELSE IF Len(ss) = 1 THEN ss[1]
    ELSE ss[1] \o sep \o Join(Tail(ss), sep)

Range(s) == {s[k] : k \in 1..Len(s)}

\* re.IGNORECASE: letters compare equal up to case.
UpperToLower ==
    [c \in {"A","B","C","D","E","F","G","H","I","J","K","L","M","N","O","P",
            "Q","R","S","T","U","V","W","X","Y","Z"} |->
        CASE c = "A" -> "a" [] c = "B" -> "b" [] c = "C" -> "c" [] c = "D" -> "d"
          [] c = "E" -> "e" [] c = "F" -> "f" [] c = "G" -> "g" [] c = "H" -> "h"
          [] c = "I" -> "i" [] c = "J" -> "j" [] c = "K" -> "k" [] c = "L" -> "l"
          [] c = "M" -> "m" [] c = "N" -> "n" [] c = "O" -> "o" [] c = "P" -> "p"
          [] c = "Q" -> "q" [] c = "R" -> "r" [] c = "S" -> "s" [] c = "T" -> "t"
          [] c = "U" -> "u" [] c = "V" -> "v" [] c = "W" -> "w" [] c = "X" -> "x"
          [] c = "Y" -> "y" [] c = "Z" -> "z"]

Lower(c) == IF c \in DOMAIN UpperToLower THEN UpperToLower[c] ELSE c

\* \s of the patterns, and the characters str.strip() removes.
IsSpace(c) == c \in {" ", "\t", "\n", "\r", "\f"}

\* [^\s"'<>]
UrlChar(c) == ~IsSpace(c) /\ c \notin {"\"", "'", "<", ">"}

\* [^;]
NotSemicolon(c) == c # ";"

\* Membership of c in the character class named class.
InClass(class, c) ==
    CASE class = "UrlChar" -> UrlChar(c)
      [] class = "NotSemicolon" -> NotSemicolon(c)

\* The literal lit (written in lower case in the pattern) matches at
\* position p of text, case ignored.
LitAt(text, p, lit) ==
    /\ p >= 1
    /\ p + Len(lit) - 1 <= Len(text)
    /\ \A k \in 1..Len(lit) : Lower(text[p + k - 1]) = lit[k]

\* Index of the last character of the longest run of characters of the
\* class starting at p (p - 1 when the run is empty): what a greedy
\* repetition of the class consumes.
RunEnd(text, p, class) ==
    LET stop == {k \in p..Len(text) : ~InClass(class, text[k])}
    IN  IF stop = {} THEN Len(text) ELSE Min(stop) - 1

\* https? : the positions where the rest of the pattern may resume, in the
\* order the matcher tries them (the optional s is greedy).
AfterHttps(text, p) ==
    IF ~LitAt(text, p, <<"h", "t", "t", "p">>) THEN <<>>
    ELSE IF LitAt(text, p + 4, <<"s">>) THEN <<p + 5, p + 4>>
    ELSE <<p + 4>>

\* The first nonzero entry of ends, 0 when there is none: the match the
\* first successful alternative gives.
FirstMatch(ends) ==
    LET hits == {k \in 1..Len(ends) : ends[k] # 0}
    IN  IF hits = {} THEN 0 ELSE ends[Min(hits)]

ImageExtensions ==
    << <<"j", "p", "g">>, <<"j", "p", "e", "g">>, <<"p", "n", "g">>,
       <<"g", "i", "f">>, <<"w", "e", "b", "p">>, <<"b", "m", "p">>,
       <<"s", "v", "g">> >>

\* \.(?:jpg|jpeg|png|gif|webp|bmp|svg) at position p: index of the last
\* character matched, 0 when it does not match.  The alternatives are tried
\* in the order written.
ExtensionEnd(text, p) ==
    IF ~LitAt(text, p, <<".">>) THEN 0
    ELSE LET hits == {k \in 1..Len(ImageExtensions) :
                         LitAt(text, p + 1, ImageExtensions[k])}
         IN  IF hits = {} THEN 0
             ELSE p + Len(ImageExtensions[Min(hits)])

\* ://[^\s"'<>]+\.(?:...) from position q on: index of the last character
\* matched, 0 when it does not match.  [^\s"'<>]+ is greedy and gives
\* characters back until the extension matches.
ImageRest(text, q) ==
    IF ~LitAt(text, q, <<":", "/", "/">>) THEN 0
    ELSE LET b == q + 3
             e == RunEnd(text, b, "UrlChar")
             ok == {n \in 1..(e - b + 1) : ExtensionEnd(text, b + n) # 0}
         IN  IF ok = {} THEN 0 ELSE ExtensionEnd(text, b + Max(ok))

\* ImageRest at each of the positions cands.
ImageEnds(text, cands) == [k \in 1..Len(cands) |-> ImageRest(text, cands[k])]

\* IMAGE_URL_PATTERN anchored at position p: index of the last character of
\* the match, 0 when there is no match at p.
IMAGE_URL_PATTERN(text, p) == FirstMatch(ImageEnds(text, AfterHttps(text, p)))

ReplicateHost ==
    <<":", "/", "/", "r", "e", "p", "l", "i", "c", "a", "t", "e", ".", "d",
      "e", "l", "i", "v", "e", "r", "y", "/">>

\* ://replicate\.delivery/[^\s"'<>]+ from position q on.
ReplicateRest(text, q) ==
    IF ~LitAt(text, q, ReplicateHost) THEN 0
    ELSE LET b == q + Len(ReplicateHost)
             e == RunEnd(text, b, "UrlChar")
         IN  IF e >= b THEN e ELSE 0

ReplicateEnds(text, cands) ==
    [k \in 1..Len(cands) |-> ReplicateRest(text, cands[k])]

\* REPLICATE_DELIVERY_PATTERN anchored at position p.
REPLICATE_DELIVERY_PATTERN(text, p) ==
    FirstMatch(ReplicateEnds(text, AfterHttps(text, p)))

\* DATA_URI_PATTERN anchored at position p.
DATA_URI_PATTERN(text, p) ==
    LET prefix == <<"d", "a", "t", "a", ":", "i", "m", "a", "g", "e", "/">>
        marker == <<";", "b", "a", "s", "e", "6", "4", ",">>
    IN  IF ~LitAt(text, p, prefix) THEN 0
        ELSE LET b == p + Len(prefix)
                 e == RunEnd(text, b, "NotSemicolon")
                 payload(n) == b + n + Len(marker)
                 ok == {n \in 1..(e - b + 1) :
                           /\ LitAt(text, b + n, marker)
                           /\ RunEnd(text, payload(n), "UrlChar") >= payload(n)}
             IN  IF ok = {} THEN 0
                 ELSE RunEnd(text, payload(Max(ok)), "UrlChar")

MatchEnd(pattern, text, p) ==
    CASE pattern = "DATA_URI_PATTERN" -> DATA_URI_PATTERN(text, p)
      [] pattern = "REPLICATE_DELIVERY_PATTERN" -> REPLICATE_DELIVERY_PATTERN(text, p)
      [] pattern = "IMAGE_URL_PATTERN" -> IMAGE_URL_PATTERN(text, p)

\* The least element of a set of positions, 0 when it is empty.
FirstOf(positions) == IF positions = {} THEN 0 ELSE Min(positions)

\* The leftmost position from p on where the pattern matches, 0 when there
\* is none.
NextStart(pattern, text, p) ==
    FirstOf({q \in p..Len(text) : MatchEnd(pattern, text, q) # 0})

\* The scan of Pattern.findall from position p on: the non-overlapping
\* matches, leftmost first, each as <<first, last>>.  The scan resumes
\* after the end e of the match found at q.
RECURSIVE Spans(_, _, _)
RECURSIVE SpansFrom(_, _, _)
RECURSIVE SpansAt(_, _, _, _)
SpansAt(pattern, text, q, e) ==
    <<(<<q, e>>)>> \o Spans(pattern, text, e + 1)

SpansFrom(pattern, text, q) ==
    IF q = 0 THEN <<>>
    ELSE SpansAt(pattern, text, q, MatchEnd(pattern, text, q))

Spans(pattern, text, p) == SpansFrom(pattern, text, NextStart(pattern, text, p))

\* The substrings of text at the spans sp.
Matched(text, sp) == [k \in 1..Len(sp) |-> SubSeq(text, sp[k][1], sp[k][2])]

\* Pattern.findall(text): the matched strings (the patterns have no
\* capturing group).
findall(pattern, text) == Matched(text, Spans(pattern, text, 1))

\* urls after the three extend calls of extract_image_urls.
ExtendedUrls(text) ==
    findall("DATA_URI_PATTERN", text)
        \o findall("REPLICATE_DELIVERY_PATTERN", text)
        \o findall("IMAGE_URL_PATTERN", text)

\* Mutant of UniqueLoop: seen.add(url) is missing.
RECURSIVE UniqueLoopNoSeen(_, _, _, _)
UniqueLoopNoSeen(list, k, seen, unique) ==
    IF k > Len(list) THEN unique
    ELSE IF list[k] \in seen THEN UniqueLoopNoSeen(list, k + 1, seen, unique)
    ELSE UniqueLoopNoSeen(list, k + 1, seen, Append(unique, list[k]))

\* The loop "for url in urls: if url not in seen: ..." from index k on.
RECURSIVE UniqueLoop(_, _, _, _)
UniqueLoop(list, k, seen, unique) ==
    IF k > Len(list) THEN unique
    ELSE IF list[k] \in seen THEN UniqueLoop(list, k + 1, seen, unique)
    ELSE UniqueLoop(list, k + 1, seen \cup {list[k]}, Append(unique, list[k]))

extract_image_urls(text) == UniqueLoop(ExtendedUrls(text), 1, {}, <<>>)

\* urls[-1] if urls else None
LastOrNone(list) == IF Truthy(list) THEN list[Len(list)] ELSE None

\* find_image_from_context(context)
find_image_from_context(context) ==
    IF ~Truthy(context) THEN None
    ELSE LastOrNone(extract_image_urls(context))

(***************************************************************************)
(* Inputs.                                                                 *)
(***************************************************************************)
GenericUrl == <<"h", "t", "t", "p", ":", "/", "/", "a", ".", "p", "n", "g">>
SignedDeliveryUrl ==
    <<"h", "t", "t", "p", "s", ":", "/", "/", "r", "e", "p", "l", "i", "c",
      "a", "t", "e", ".", "d", "e", "l", "i", "v", "e", "r", "y", "/", "b",
      ".", "p", "n", "g", "?", "s">>
UpperDeliveryUrl ==
    <<"H", "T", "T", "P", ":", "/", "/", "R", "e", "p", "l", "i", "c", "a",
      "t", "e", ".", "D", "e", "l", "i", "v", "e", "r", "y", "/", "c", ".",
      "P", "N", "G">>
DataUri ==
    <<"d", "a", "t", "a", ":", "i", "m", "a", "g", "e", "/", "p", "n", "g",
      ";", "b", "a", "s", "e", "6", "4", ",", "Q", "Q">>
PlainWord == <<"s", "e", "e">>
BracketedUrl ==
    <<"<", "h", "t", "t", "p", ":", "/", "/", "a", ".", "p", "n", "g", ">">>

Words == {GenericUrl, SignedDeliveryUrl, UpperDeliveryUrl, DataUri,
          PlainWord, BracketedUrl}

SeqsUpTo(S, n) == UNION {[1..k -> S] : k \in 0..n}

\* Texts: up to MaxWords words separated by single spaces.
Texts == {Join(ws, <<" ">>) : ws \in SeqsUpTo(Words, MaxWords)}

\* conversation_context arguments: None, "", and up to MaxCtxWords words.
ContextWords == {GenericUrl, SignedDeliveryUrl, DataUri, PlainWord}
Contexts ==
    {None} \cup {Join(ws, <<" ">>) : ws \in SeqsUpTo(ContextWords, MaxCtxWords)}

ExplicitUrl == <<"h", "t", "t", "p", ":", "/", "/", "e", ".", "g", "i", "f">>
ImageUrls == {None, <<>>, ExplicitUrl}

\* CONVERSATION_IMAGES: unset, or up to MaxEnvEntries entries joined by commas.
PaddedUrl == <<" ">> \o ExplicitUrl \o <<" ">>
EnvEntries == {<<>>, <<" ">>, GenericUrl, PaddedUrl}
EnvValues ==
    {None} \cup {Join(es, <<",">>) :
                    es \in UNION {[1..k -> EnvEntries] : k \in 1..MaxEnvEntries}}

\* Inputs of the concurrent runs.
ConcContexts == {None, GenericUrl, PlainWord}
ConcImageUrls == {None, ExplicitUrl}
ConcEnvValues == {None, GenericUrl \o <<",">> \o PaddedUrl}

Prompts == {"make the background blue"}

\* What replicate.run hands back: values whose str() is the field v.
FileOutput(u) == [type |-> "FileOutput", v |-> u]
StrValue(u) == [type |-> "str", v |-> u]
ProviderLists == {<<>>, <<FileOutput("u1"), StrValue("u2")>>}
ProviderScalars == {FileOutput("u1")}
ProviderErrors == {"401 Unauthorized", "timed out"}

DEFAULT_GENERATION_MODEL == "google/imagen-4-fast"
DEFAULT_EDIT_MODEL == "openai/gpt-image-1.5"

Calls == 1..NumCalls

(***************************************************************************)
(* State.                                                                  *)
(***************************************************************************)
VARIABLES
    text,             \* extract_image_urls: its argument
    urls,             \* extract_image_urls: urls after the three extends
    unique_urls,      \* extract_image_urls: the list returned
    environ,          \* os.environ["CONVERSATION_IMAGES"] (None: unset)
    pc,               \* per invocation: idle, running, returned, raised
    args,             \* per invocation: the tool and its arguments
    final_image_url,  \* per invocation: edit_image's local
    context_urls,     \* per invocation: urls of find_image_from_context
    env_images,       \* per invocation: the value read from os.environ
    requests,         \* per invocation: the replicate.run calls it made
    output,           \* per invocation: what replicate.run gave back
    result            \* per invocation: the list returned or error raised

extractVars == <<text, urls, unique_urls>>
toolVars == <<environ, pc, args, final_image_url, context_urls, env_images,
              requests, output, result>>
vars == <<text, urls, unique_urls, environ, pc, args, final_image_url,
          context_urls, env_images, requests, output, result>>

NoArgs ==
    [tool |-> "none", prompt |-> "", image_url |-> None,
     conversation_context |-> None, num_outputs |-> 0, model |-> ""]
NoOutput == [kind |-> "none", items |-> <<>>, cause |-> ""]
NoResult == [kind |-> "none", items |-> <<>>, msg |-> <<>>]

(***************************************************************************)
(* Helpers of edit_image.                                                  *)
(***************************************************************************)
\* str.split(",")
RECURSIVE Split(_)
Split(s) ==
    LET commas == {k \in 1..Len(s) : s[k] = ","}
    IN  IF commas = {} THEN <<s>>
        ELSE <<SubSeq(s, 1, Min(commas) - 1)>>
                 \o Split(SubSeq(s, Min(commas) + 1, Len(s)))

\* str.strip()
Strip(s) ==
    LET keep == {k \in 1..Len(s) : ~IsSpace(s[k])}
    IN  IF keep = {} THEN <<>> ELSE SubSeq(s, Min(keep), Max(keep))

\* os.environ.get("CONVERSATION_IMAGES", "")
EnvironGet(env) == IF env = None THEN <<>> ELSE env

\* Mutant of StripKept: the entries are not stripped.
StripKeptUnstripped(parts) == SelectSeq(parts, LAMBDA u : Truthy(u))

\* The entries of parts that are not blank, stripped.
StripKept(parts) ==
    LET kept == SelectSeq(parts, LAMBDA u : Truthy(Strip(u)))
    IN  [k \in 1..Len(kept) |-> Strip(kept[k])]

\* [url.strip() for url in env_images.split(",") if url.strip()]
EnvUrls(images) == StripKept(Split(images))

\* Mutant of LastOr: the first entry, urls[0].
FirstOr(list, final) == IF Truthy(list) THEN list[1] ELSE final

\* if urls: final_image_url = urls[-1]
LastOr(list, final) == IF Truthy(list) THEN list[Len(list)] ELSE final

\* final_image_url after the environment value images was tried.
AfterEnviron(final, images) ==
    IF Truthy(images) THEN LastOr(EnvUrls(images), final) ELSE final

\* final_image_url after the conversation context was tried.
AfterContext(image_url, conversation_context) ==
    IF Truthy(conversation_context)
    THEN find_image_from_context(conversation_context)
    ELSE image_url

\* "If still not found, try environment variable": final_image_url, and
\* the value read from os.environ (None when it is not read).
TryEnviron(final, env) ==
    IF ~Truthy(final)
    THEN [final_image_url |-> AfterEnviron(final, EnvironGet(env)),
          env_images |-> EnvironGet(env)]
    ELSE [final_image_url |-> final, env_images |-> None]

\* Mutant of ResolveImage: the conversation context is tried before
\* image_url.
ResolveImageContextFirst(image_url, conversation_context, env) ==
    IF Truthy(find_image_from_context(conversation_context))
    THEN [final_image_url |-> find_image_from_context(conversation_context),
          env_images |-> None]
    ELSE IF ~Truthy(image_url) THEN TryEnviron(image_url, env)
    ELSE [final_image_url |-> image_url, env_images |-> None]

\* Mutant of ResolveImage: the environment is read only when there is no
\* conversation context (elif instead of a second if).
ResolveImageNoFallThrough(image_url, conversation_context, env) ==
    IF Truthy(image_url)
    THEN [final_image_url |-> image_url, env_images |-> None]
    ELSE IF Truthy(conversation_context)
    THEN [final_image_url |-> find_image_from_context(conversation_context),
          env_images |-> None]
    ELSE TryEnviron(image_url, env)

\* The image source resolution of edit_image.
ResolveImage(image_url, conversation_context, env) ==
    IF ~Truthy(image_url)
    THEN TryEnviron(AfterContext(image_url, conversation_context), env)
    ELSE [final_image_url |-> image_url, env_images |-> None]

\* urls of find_image_from_context as edit_image calls it (None when it
\* is not called).
ContextUrls(image_url, conversation_context) ==
    IF ~Truthy(image_url) /\ Truthy(conversation_context)
    THEN extract_image_urls(conversation_context)
    ELSE None

Str(x) == x.v

\* The list built from replicate.run's return value.
Normalize(out) ==
    IF out.kind = "list"
    THEN [kind |-> "list",
          items |-> [k \in 1..Len(out.items) |-> Str(out.items[k])],
          msg |-> <<>>]
    ELSE [kind |-> "list", items |-> <<Str(out.items[1])>>, msg |-> <<>>]

\* raise RuntimeError(f"Failed to ... image: {str(e)}")
Failure(tool, cause) ==
    [kind |-> "RuntimeError", items |-> <<>>,
     msg |-> <<IF tool = "edit_image" THEN "Failed to edit image: "
               ELSE "Failed to generate image: ", cause>>]

(***************************************************************************)
(* The tools.                                                              *)
(***************************************************************************)
\* generate_image up to its replicate.run call.
generate_image(i, prompt, num_outputs, model) ==
    /\ pc[i] = "idle"
    /\ args' = [args EXCEPT ![i] =
                   [tool |-> "generate_image", prompt |-> prompt,
                    image_url |-> None, conversation_context |-> None,
                    num_outputs |-> num_outputs, model |-> model]]
    /\ requests' = [requests EXCEPT ![i] = Append(@,
                       [model |-> model, image |-> None, prompt |-> prompt,
                        aspect_ratio |-> "4:3", num_outputs |-> num_outputs,
                        quality |-> "low"])]
    /\ pc' = [pc EXCEPT ![i] = "running"]
    /\ UNCHANGED <<environ, final_image_url, context_urls, env_images,
                   output, result, extractVars>>

\* edit_image with its image source resolved: the early return, or the
\* replicate.run call.
EditResolved(i, prompt, image_url, conversation_context, num_outputs, model, resolved, found) ==
    /\ args' = [args EXCEPT ![i] =
                   [tool |-> "edit_image", prompt |-> prompt,
                    image_url |-> image_url,
                    conversation_context |-> conversation_context,
                    num_outputs |-> num_outputs, model |-> model]]
    /\ context_urls' = [context_urls EXCEPT ![i] = found]
    /\ env_images' = [env_images EXCEPT ![i] = resolved.env_images]
    /\ final_image_url' =
           [final_image_url EXCEPT ![i] = resolved.final_image_url]
    /\ IF ~Truthy(resolved.final_image_url)
       THEN /\ result' = [result EXCEPT ![i] =
                   [kind |-> "list", items |-> <<>>, msg |-> <<>>]]
            /\ pc' = [pc EXCEPT ![i] = "returned"]
            /\ UNCHANGED requests
       ELSE /\ requests' = [requests EXCEPT ![i] = Append(@,
                   [model |-> model, image |-> resolved.final_image_url,
                    prompt |-> prompt, aspect_ratio |-> "3:2",
                    num_outputs |-> num_outputs, quality |-> "low"])]
            /\ pc' = [pc EXCEPT ![i] = "running"]
            /\ UNCHANGED result
    /\ UNCHANGED <<environ, output, extractVars>>

\* Mutant of edit_image: the resolved image is kept in a module-level
\* variable that a later invocation finds set.
edit_image_shared(i, prompt, image_url, conversation_context, num_outputs, model) ==
    /\ pc[i] = "idle"
    /\ LET set == {j \in Calls : Truthy(final_image_url[j])}
       IN  EditResolved(i, prompt, image_url, conversation_context,
                        num_outputs, model,
                        IF set # {}
                        THEN [final_image_url |-> final_image_url[Min(set)],
                              env_images |-> None]
                        ELSE ResolveImage(image_url, conversation_context,
                                          environ),
                        ContextUrls(image_url, conversation_context))

\* edit_image up to its early return or its replicate.run call.
edit_image(i, prompt, image_url, conversation_context, num_outputs, model) ==
    /\ pc[i] = "idle"
    /\ EditResolved(i, prompt, image_url, conversation_context, num_outputs,
                    model,
                    ResolveImage(image_url, conversation_context, environ),
                    ContextUrls(image_url, conversation_context))

\* replicate.run returns out: the tool returns the list built from it.
RunReturns(i, out) ==
    /\ pc[i] = "running"
    /\ output' = [output EXCEPT ![i] = out]
    /\ result' = [result EXCEPT ![i] = Normalize(out)]
    /\ pc' = [pc EXCEPT ![i] = "returned"]
    /\ UNCHANGED <<environ, args, final_image_url, context_urls, env_images,
                   requests, extractVars>>

\* Mutant of RunRaises: the error is logged and an empty list returned.
RunRaisesSwallowed(i, cause) ==
    /\ pc[i] = "running"
    /\ output' = [output EXCEPT ![i] =
                     [kind |-> "raise", items |-> <<>>, cause |-> cause]]
    /\ result' = [result EXCEPT ![i] =
                     [kind |-> "list", items |-> <<>>, msg |-> <<>>]]
    /\ pc' = [pc EXCEPT ![i] = "returned"]
    /\ UNCHANGED <<environ, args, final_image_url, context_urls, env_images,
                   requests, extractVars>>

\* Mutant of RunRaises: the call is made once more before giving up.
RunRaisesRetried(i, cause) ==
    /\ pc[i] = "running"
    /\ output' = [output EXCEPT ![i] =
                     [kind |-> "raise", items |-> <<>>, cause |-> cause]]
    /\ IF Len(requests[i]) < 2
       THEN /\ requests' = [requests EXCEPT ![i] = Append(@, @[1])]
            /\ UNCHANGED <<result, pc>>
       ELSE /\ result' = [result EXCEPT ![i] = Failure(args[i].tool, cause)]
            /\ pc' = [pc EXCEPT ![i] = "raised"]
            /\ UNCHANGED requests
    /\ UNCHANGED <<environ, args, final_image_url, context_urls, env_images,
                   extractVars>>

\* replicate.run raises: the tool logs and raises RuntimeError.
RunRaises(i, cause) ==
    /\ pc[i] = "running"
    /\ output' = [output EXCEPT ![i] =
                     [kind |-> "raise", items |-> <<>>, cause |-> cause]]
    /\ result' = [result EXCEPT ![i] = Failure(args[i].tool, cause)]
    /\ pc' = [pc EXCEPT ![i] = "raised"]
    /\ UNCHANGED <<environ, args, final_image_url, context_urls, env_images,
                   requests, extractVars>>

\* extract_image_urls(text)
ExtractImageUrls ==
    /\ unique_urls = None
    /\ urls' = ExtendedUrls(text)
    /\ unique_urls' = extract_image_urls(text)
    /\ UNCHANGED <<text, toolVars>>

(***************************************************************************)
(* Specifications.                                                         *)
(***************************************************************************)
InitTools ==
    /\ pc = [i \in Calls |-> "idle"]
    /\ args = [i \in Calls |-> NoArgs]
    /\ final_image_url = [i \in Calls |-> None]
    /\ context_urls = [i \in Calls |-> None]
    /\ env_images = [i \in Calls |-> None]
    /\ requests = [i \in Calls |-> <<>>]
    /\ output = [i \in Calls |-> NoOutput]
    /\ result = [i \in Calls |-> NoResult]

\* The extractor applied to every text.
InitExtract ==
    /\ text \in Texts
    /\ urls = None
    /\ unique_urls = None
    /\ environ = None
    /\ InitTools

NextExtract == ExtractImageUrls

SpecExtract == InitExtract /\ [][NextExtract]_vars

ProviderResponse(i) ==
    \/ \E items \in ProviderLists :
           RunReturns(i, [kind |-> "list", items |-> items, cause |-> ""])
    \/ \E item \in ProviderScalars :
           RunReturns(i, [kind |-> "scalar", items |-> <<item>>, cause |-> ""])
    \/ \E cause \in ProviderErrors : RunRaises(i, cause)

\* One tool invocation, over all arguments and environment values.
Init ==
    /\ text = <<>>
    /\ urls = None
    /\ unique_urls = None
    /\ environ \in EnvValues
    /\ InitTools

Next ==
    \/ \E p \in Prompts : generate_image(1, p, 1, DEFAULT_GENERATION_MODEL)
    \/ \E p \in Prompts, u \in ImageUrls, c \in Contexts :
           edit_image(1, p, u, c, 1, DEFAULT_EDIT_MODEL)
    \/ ProviderResponse(1)

Spec == Init /\ [][Next]_vars

\* Concurrent invocations.  A tool runs without suspension up to its
\* replicate.run call; other invocations may start, and provider responses
\* may arrive, in any order while a call is outstanding.  Nothing in the
\* server writes os.environ, so environ keeps its initial value.
InitConc ==
    /\ text = <<>>
    /\ urls = None
    /\ unique_urls = None
    /\ environ \in ConcEnvValues
    /\ InitTools

NextConc ==
    \E i \in Calls :
        \/ \E p \in Prompts : generate_image(i, p, 1, DEFAULT_GENERATION_MODEL)
        \/ \E p \in Prompts, u \in ConcImageUrls, c \in ConcContexts :
               edit_image(i, p, u, c, 1, DEFAULT_EDIT_MODEL)
        \/ ProviderResponse(i)

SpecConc == InitConc /\ [][NextConc]_vars

(***************************************************************************)
(* Properties of extract_image_urls (SpecExtract).                         *)
(***************************************************************************)
Extracted == unique_urls # None

\* Index of the first occurrence of x in list.
FirstIndex(list, x) == Min({k \in 1..Len(list) : list[k] = x})

\* C7: the list returned by extract_image_urls contains no two equal
\* strings, holds exactly the strings of the concatenated matches (inline
\* data, then provider-hosted, then generic), and orders them by their
\* first occurrence in that concatenation.
C7_DedupKeepsFirstOccurrence ==
    Extracted =>
        /\ \A a, b \in 1..Len(unique_urls) :
               a # b => unique_urls[a] # unique_urls[b]
        /\ Range(unique_urls) = Range(urls)
        /\ \A a, b \in 1..Len(unique_urls) :
               a < b => FirstIndex(urls, unique_urls[a])
                            < FirstIndex(urls, unique_urls[b])

\* A string matched twice, between first occurrences of other strings.
C7_Witness ==
    /\ Extracted
    /\ Len(unique_urls) >= 2
    /\ \E a, b \in 1..Len(urls) : a + 1 < b /\ urls[a] = urls[b]

\* C2: a reference matched by the provider-hosted pattern and, at the same
\* occurrence, by the generic pattern contributes exactly one entry to the
\* list returned by extract_image_urls.
C2_OverlapListedOnce ==
    Extracted =>
        \A r \in Range(Spans("REPLICATE_DELIVERY_PATTERN", text, 1)),
           g \in Range(Spans("IMAGE_URL_PATTERN", text, 1)) :
            r[1] = g[1] =>
                Cardinality({k \in 1..Len(unique_urls) :
                    \/ unique_urls[k] = SubSeq(text, r[1], r[2])
                    \/ unique_urls[k] = SubSeq(text, g[1], g[2])}) = 1

(***************************************************************************)
(* Properties of the tools (Spec, SpecConc).                               *)
(***************************************************************************)
Started(i) == pc[i] # "idle"
Finished(i) == pc[i] \in {"returned", "raised"}
IsEdit(i) == args[i].tool = "edit_image"

\* The occurrences of image references in a text, of all three patterns.
AllSpans(t) ==
    Range(Spans("DATA_URI_PATTERN", t, 1))
        \cup Range(Spans("REPLICATE_DELIVERY_PATTERN", t, 1))
        \cup Range(Spans("IMAGE_URL_PATTERN", t, 1))

\* The conversation context of invocation i yielded no target: it is empty
\* or absent (the extractor was not run), or the extractor found nothing.
NoReference(i) ==
    IF Truthy(args[i].conversation_context)
    THEN context_urls[i] = <<>>
    ELSE context_urls[i] = None

\* The CONVERSATION_IMAGES value env is unset, empty, or made of commas
\* and whitespace only.
BlankEnv(env) ==
    env = None \/ \A k \in 1..Len(env) : env[k] = "," \/ IsSpace(env[k])

\* The last entry of the comma-separated value env that is not blank,
\* without its surrounding whitespace.
LastEnvEntry(env) ==
    LET solid == {k \in 1..Len(env) : env[k] # "," /\ ~IsSpace(env[k])}
        last == Max(solid)
        commas == {k \in 1..last : env[k] = ","}
        from == IF commas = {} THEN 1 ELSE Max(commas) + 1
        first == Min({k \in solid : k >= from})
    IN  SubSeq(env, first, last)

\* C1: when edit_image takes its target from the conversation context, no
\* other reference found in the context has an occurrence that starts
\* later in the text than the last occurrence of the chosen one.
C1_MostRecentMentionChosen ==
    \A i \in Calls :
        ( /\ Started(i) /\ IsEdit(i)
          /\ ~Truthy(args[i].image_url)
          /\ Truthy(args[i].conversation_context)
          /\ Truthy(context_urls[i]) )
        => LET c == args[i].conversation_context
               chosen == {sp \in AllSpans(c) :
                             SubSeq(c, sp[1], sp[2]) = final_image_url[i]}
           IN  /\ chosen # {}
               /\ \A sp \in AllSpans(c) \ chosen :
                      \E ch \in chosen : sp[1] <= ch[1]

\* C3 as stated: whenever the provider was invoked and the tool returned,
\* the returned list is not empty.
C3_NeverEmptyAfterProviderCall ==
    \A i \in Calls :
        (pc[i] = "returned" /\ requests[i] # <<>>) => result[i].items # <<>>

\* C3 amended: a tool returns an empty list only when edit_image resolved
\* no target (and then made no provider call) or when the provider call
\* succeeded with an empty sequence; a provider call that fails ends in the
\* error, never in a returned list.
C3_EmptyOnlyWithoutTargetOrEmptyOutput ==
    \A i \in Calls :
        /\ (pc[i] = "returned" /\ result[i].items = <<>>) =>
               \/ /\ IsEdit(i) /\ requests[i] = <<>>
                  /\ ~Truthy(final_image_url[i])
               \/ /\ requests[i] # <<>>
                  /\ output[i].kind = "list" /\ output[i].items = <<>>
        /\ (Finished(i) /\ output[i].kind = "raise") =>
               /\ pc[i] = "raised"
               /\ result[i].kind = "RuntimeError"

\* The provider was called and returned an empty sequence.
C3_Witness ==
    \E i \in Calls :
        /\ pc[i] = "returned" /\ requests[i] # <<>>
        /\ output[i].kind = "list" /\ result[i].items = <<>>

\* C4: with no image_url, a conversation_context that is empty or holds no
\* reference, and a CONVERSATION_IMAGES value that is unset, empty or blank,
\* edit_image returns the empty list and makes no provider call.
C4_NoSourceReturnsEmptyWithoutCall ==
    \A i \in Calls :
        ( /\ Started(i) /\ IsEdit(i)
          /\ ~Truthy(args[i].image_url)
          /\ BlankEnv(environ)
          /\ NoReference(i) )
        => /\ pc[i] = "returned"
           /\ result[i] = [kind |-> "list", items |-> <<>>, msg |-> <<>>]
           /\ requests[i] = <<>>

\* A context without reference and an environment value of blank entries.
C4_Witness ==
    \E i \in Calls :
        /\ pc[i] = "returned" /\ IsEdit(i)
        /\ args[i].conversation_context = PlainWord
        /\ environ # None /\ " " \in Range(environ) /\ "," \in Range(environ)
        /\ BlankEnv(environ)
        /\ requests[i] = <<>>

\* C5: a non-empty image_url is the image passed to the provider, whatever
\* the conversation context and the environment value, and neither of the
\* two is consulted.
C5_ExplicitUrlWins ==
    \A i \in Calls :
        (Started(i) /\ IsEdit(i) /\ Truthy(args[i].image_url)) =>
            /\ Len(requests[i]) = 1
            /\ requests[i][1].image = args[i].image_url
            /\ context_urls[i] = None
            /\ env_images[i] = None

\* An explicit image_url beside a context and an environment value that
\* both hold another reference.
C5_Witness ==
    \E i \in Calls :
        /\ Started(i) /\ IsEdit(i)
        /\ args[i].image_url = ExplicitUrl
        /\ args[i].conversation_context = GenericUrl
        /\ environ = GenericUrl
        /\ requests[i] # <<>>

\* C6: when the provider call fails, the tool ends in a generation-failure
\* error that carries the cause's description, after exactly one provider
\* call.
C6_FailureRaisedOnce ==
    \A i \in Calls :
        output[i].kind = "raise" =>
            /\ pc[i] = "raised"
            /\ result[i].kind = "RuntimeError"
            /\ result[i].items = <<>>
            /\ result[i].msg[Len(result[i].msg)] = output[i].cause
            /\ Len(requests[i]) = 1

\* A provider call of each tool has failed.
C6_Witness ==
    \E i \in Calls :
        /\ pc[i] = "raised" /\ IsEdit(i)
        /\ output[i].cause = "timed out"

\* C8: when neither image_url nor the conversation context yields a target
\* and the CONVERSATION_IMAGES value is not empty, the image passed to the
\* provider is the last entry that is not blank, trimmed; when every entry is
\* blank no provider call is made.
C8_EnvLastEntryUsed ==
    \A i \in Calls :
        ( /\ Started(i) /\ IsEdit(i)
          /\ ~Truthy(args[i].image_url)
          /\ Truthy(environ)
          /\ NoReference(i) )
        => IF BlankEnv(environ)
           THEN requests[i] = <<>>
           ELSE /\ Len(requests[i]) = 1
                /\ requests[i][1].image = LastEnvEntry(environ)

\* Two different entries, the last one padded with whitespace.
C8_Witness ==
    \E i \in Calls :
        /\ Started(i) /\ IsEdit(i)
        /\ ~Truthy(args[i].image_url)
        /\ ~Truthy(args[i].conversation_context)
        /\ environ = GenericUrl \o <<",">> \o PaddedUrl
        /\ requests[i] # <<>>
        /\ requests[i][1].image = ExplicitUrl

\* C10: with no image_url and a non-empty conversation context in which the
\* extractor finds no reference, edit_image still reads CONVERSATION_IMAGES
\* and, when it holds an entry, calls the provider with the last entry.
C10_FallsThroughToEnv ==
    \A i \in Calls :
        ( /\ Started(i) /\ IsEdit(i)
          /\ ~Truthy(args[i].image_url)
          /\ Truthy(args[i].conversation_context)
          /\ context_urls[i] = <<>> )
        => /\ env_images[i] = EnvironGet(environ)
           /\ ~BlankEnv(environ) =>
                  /\ final_image_url[i] = LastEnvEntry(environ)
                  /\ requests[i] # <<>>
                  /\ requests[i][Len(requests[i])].image = final_image_url[i]

\* A context of plain words, and an environment value with an entry.
C10_Witness ==
    \E i \in Calls :
        /\ pc[i] = "running" /\ IsEdit(i)
        /\ args[i].image_url = None
        /\ args[i].conversation_context = PlainWord \o <<" ">> \o PlainWord
        /\ context_urls[i] = <<>>
        /\ environ = PaddedUrl
        /\ requests[i][1].image = ExplicitUrl

\* C9: under every interleaving of the invocations, each invocation makes
\* at most one provider call, resolves the image its own arguments and the
\* environment value it read determine, and ends with the result its own
\* provider response determines.
C9_InvocationsIndependent ==
    \A i \in Calls :
        /\ Len(requests[i]) <= 1
        /\ (Started(i) /\ IsEdit(i)) =>
               LET own == ResolveImage(args[i].image_url,
                                       args[i].conversation_context,
                                       env_images[i])
               IN  /\ final_image_url[i] = own.final_image_url
                   /\ requests[i] = <<>> <=> ~Truthy(own.final_image_url)
                   /\ requests[i] # <<>> =>
                          requests[i][1].image = own.final_image_url
        /\ Finished(i) =>
               result[i] =
                   IF requests[i] = <<>>
                   THEN [kind |-> "list", items |-> <<>>, msg |-> <<>>]
                   ELSE IF output[i].kind = "raise"
                   THEN Failure(args[i].tool, output[i].cause)
                   ELSE Normalize(output[i])

\* Two edit_image invocations in flight together, on different images, one
\* of which returned and the other raised.
C9_Witness ==
    \E i, j \in Calls :
        /\ i # j /\ IsEdit(i) /\ IsEdit(j)
        /\ pc[i] = "returned" /\ pc[j] = "raised"
        /\ requests[i] # <<>> /\ requests[j] # <<>>
        /\ requests[i][1].image # requests[j][1].image
        /\ result[i].items # <<>>

=============================================================================
